---------------------------- MODULE Spec2Model ----------------------------
(***************************************************************************)
(* Model of src/Code.js: generateBrandReports, the pipeline that turns a   *)
(* table of invoice line items into one rendered report per brand, with    *)
(* its progress log, its blocking notifications and its Drive artifacts.   *)
(*                                                                         *)
(* JavaScript strings are sequences of one-character strings, so that      *)
(* trim, toLowerCase, includes, the regular expressions, parseFloat,       *)
(* toFixed and the default sort are computed character by character.       *)
(* JavaScript numbers are exact rationals [n, d] in lowest terms (d > 0),  *)
(* with d = 0 standing for NaN: the arithmetic is exact, not IEEE-754.     *)
(***************************************************************************)
EXTENDS Integers, Sequences, FiniteSets, TLC

(***************************************************************************)
(* Characters and strings                                                  *)
(***************************************************************************)

\* The printable ASCII characters, in code-unit order from 32 to 126. The
\* grave accent (96) is not written in this module: "grave" holds its place.
Ascii ==
  << " ", "!", "\"", "#", "$", "%", "&", "'", "(", ")", "*", "+", ",", "-",
     ".", "/", "0", "1", "2", "3", "4", "5", "6", "7", "8", "9", ":", ";",
     "<", "=", ">", "?", "@", "A", "B", "C", "D", "E", "F", "G", "H", "I",
     "J", "K", "L", "M", "N", "O", "P", "Q", "R", "S", "T", "U", "V", "W",
     "X", "Y", "Z", "[", "\\", "]", "^", "_", "grave", "a", "b", "c", "d", "e",
     "f", "g", "h", "i", "j", "k", "l", "m", "n", "o", "p", "q", "r", "s",
     "t", "u", "v", "w", "x", "y", "z", "{", "|", "}", "~" >>

Chars == { Ascii[i] : i \in 1..Len(Ascii) }

\* The UTF-16 code unit of a character.
CharCode == [ c \in Chars |-> 31 + (CHOOSE i \in 1..Len(Ascii) : Ascii[i] = c) ]

Digits == << "0", "1", "2", "3", "4", "5", "6", "7", "8", "9" >>

IsDigit(c) == c \in { Digits[i] : i \in 1..Len(Digits) }

DigitValue(c) == (CHOOSE i \in 1..Len(Digits) : Digits[i] = c) - 1

\* String.prototype.toLowerCase, one character.
LowerChar == [ c \in Chars |->
                 IF CharCode[c] >= 65 /\ CharCode[c] <= 90
                 THEN Ascii[CharCode[c] + 32 - 31] ELSE c ]

toLowerCase(s) == [ i \in 1..Len(s) |-> LowerChar[s[i]] ]

\* String.prototype.includes.
includes(s, sub) ==
  \E i \in 0..(Len(s) - Len(sub)) : SubSeq(s, i + 1, i + Len(sub)) = sub

\* String.prototype.trim (the only white space of the model is the space).
RECURSIVE TrimStart(_)
TrimStart(s) == IF s # <<>> /\ s[1] = " " THEN TrimStart(Tail(s)) ELSE s

RECURSIVE TrimEnd(_)
TrimEnd(s) ==
  IF s # <<>> /\ s[Len(s)] = " " THEN TrimEnd(SubSeq(s, 1, Len(s) - 1)) ELSE s

trim(s) == TrimEnd(TrimStart(s))

\* The longest prefix of s made of digits.
RECURSIVE DigitPrefix(_)
DigitPrefix(s) ==
  IF s # <<>> /\ IsDigit(s[1]) THEN <<s[1]>> \o DigitPrefix(Tail(s)) ELSE <<>>

\* The number a digit string denotes (0 for the empty string).
RECURSIVE DigitsValue(_)
DigitsValue(s) ==
  IF s = <<>> THEN 0
  ELSE 10 * DigitsValue(SubSeq(s, 1, Len(s) - 1)) + DigitValue(s[Len(s)])

\* The decimal digits of a natural number.
RECURSIVE IntToDigits(_)
IntToDigits(n) ==
  IF n < 10 THEN << Digits[n + 1] >>
  ELSE IntToDigits(n \div 10) \o << Digits[(n % 10) + 1] >>

\* a < b in the order of the default Array.prototype.sort: by code units,
\* a proper prefix before the longer string.
RECURSIVE StrLess(_, _)
StrLess(a, b) ==
  IF b = <<>> THEN FALSE
  ELSE IF a = <<>> THEN TRUE
  ELSE IF a[1] # b[1] THEN CharCode[a[1]] < CharCode[b[1]]
  ELSE StrLess(Tail(a), Tail(b))

\* The value of an absent property. No string equals it: the elements of a
\* string are single characters.
Undefined == << "undefined" >>

\* JavaScript truthiness of a string or undefined, and the || operator.
Truthy(v) == v # Undefined /\ v # <<>>

Or(a, b) == IF Truthy(a) THEN a ELSE b

\* obj[key] of an object modelled as a function from its own keys.
Get(obj, key) == IF key \in DOMAIN obj THEN obj[key] ELSE Undefined

(***************************************************************************)
(* Numbers                                                                 *)
(***************************************************************************)

Abs(i) == IF i < 0 THEN -i ELSE i

RECURSIVE GCD(_, _)
GCD(a, b) == IF b = 0 THEN a ELSE GCD(b, a % b)

NaN == [n |-> 0, d |-> 0]

IsNaN(v) == v.d = 0

\* The rational n / d (d > 0) in lowest terms.
Rat(n, d) ==
  LET g == GCD(Abs(n), d) IN [n |-> n \div g, d |-> d \div g]

Num(i) == [n |-> i, d |-> 1]

Add(a, b) ==
  IF IsNaN(a) \/ IsNaN(b) THEN NaN ELSE Rat(a.n * b.d + b.n * a.d, a.d * b.d)

Sub(a, b) ==
  IF IsNaN(a) \/ IsNaN(b) THEN NaN ELSE Rat(a.n * b.d - b.n * a.d, a.d * b.d)

Mul(a, b) ==
  IF IsNaN(a) \/ IsNaN(b) THEN NaN ELSE Rat(a.n * b.n, a.d * b.d)

\* a / b for a positive divisor b.
Div(a, b) ==
  IF IsNaN(a) \/ IsNaN(b) THEN NaN ELSE Rat(a.n * b.d, a.d * b.n)

\* a < b; every comparison with NaN is false.
Less(a, b) == ~IsNaN(a) /\ ~IsNaN(b) /\ a.n * b.d < b.n * a.d

RECURSIVE Pow10(_)
Pow10(k) == IF k = 0 THEN 1 ELSE 10 * Pow10(k - 1)

\* Math.abs.
MathAbs(v) == IF IsNaN(v) THEN NaN ELSE [n |-> Abs(v.n), d |-> v.d]

\* Math.round: the integer nearest to v, a tie going towards +Infinity.
MathRound(v) == IF IsNaN(v) THEN NaN ELSE Num((2 * v.n + v.d) \div (2 * v.d))

\* The default of roundToNearest's parameter decimals.
Decimals == 2

\* function roundToNearest(value, decimals = 2).
roundToNearest(value) ==
  Div(MathRound(Mul(value, Num(Pow10(Decimals)))), Num(Pow10(Decimals)))

\* parseFloat of a string: optional white space and sign, then the longest
\* prefix digits[.digits] or .digits; NaN when there is none. Exponents and
\* "Infinity" are not in the model's inputs.
parseFloat(s) ==
  LET t      == TrimStart(s)
      signed == t # <<>> /\ t[1] \in {"-", "+"}
      neg    == t # <<>> /\ t[1] = "-"
      body   == IF signed THEN Tail(t) ELSE t
      ip     == DigitPrefix(body)
      rest   == SubSeq(body, Len(ip) + 1, Len(body))
      fp     == IF rest # <<>> /\ rest[1] = "." THEN DigitPrefix(Tail(rest))
                ELSE <<>>
      mag    == Rat(DigitsValue(ip \o fp), Pow10(Len(fp)))
  IN IF ip = <<>> /\ fp = <<>> THEN NaN
     ELSE IF neg THEN [n |-> -mag.n, d |-> mag.d] ELSE mag

\* Number.prototype.toFixed(2): the nearest hundredth, a tie going to the
\* larger magnitude, with at least one digit before the point.
toFixed(v) ==
  IF IsNaN(v) THEN << "N", "a", "N" >>
  ELSE LET a   == MathAbs(v)
           n   == (2 * a.n * Pow10(Decimals) + a.d) \div (2 * a.d)
           ds  == IntToDigits(n)
           pad == IF Len(ds) <= Decimals
                  THEN [ i \in 1..(Decimals + 1 - Len(ds)) |-> "0" ] \o ds
                  ELSE ds
           str == SubSeq(pad, 1, Len(pad) - Decimals) \o << "." >>
                    \o SubSeq(pad, Len(pad) - Decimals + 1, Len(pad))
       IN IF v.n < 0 THEN << "-" >> \o str ELSE str

(***************************************************************************)
(* String literals of src/Code.js                                          *)
(***************************************************************************)

sStarContactName == << "*", "C", "o", "n", "t", "a", "c", "t", "N", "a", "m", "e" >>

sStarInvoiceNumber == << "*", "I", "n", "v", "o", "i", "c", "e", "N", "u", "m", "b", "e", "r" >>

sInvoiceNumber == << "I", "n", "v", "o", "i", "c", "e", "N", "u", "m", "b", "e", "r" >>

sDescription == << "D", "e", "s", "c", "r", "i", "p", "t", "i", "o", "n" >>

sStarQuantity == << "*", "Q", "u", "a", "n", "t", "i", "t", "y" >>

sQuantity == << "Q", "u", "a", "n", "t", "i", "t", "y" >>

sStarUnitAmount == << "*", "U", "n", "i", "t", "A", "m", "o", "u", "n", "t" >>

sUnitAmount == << "U", "n", "i", "t", "A", "m", "o", "u", "n", "t" >>

sStarTaxType == << "*", "T", "a", "x", "T", "y", "p", "e" >>

sUnknownBrand == << "U", "n", "k", "n", "o", "w", "n", " ", "B", "r", "a", "n", "d" >>

sUnknownInvoice == << "U", "n", "k", "n", "o", "w", "n", " ", "I", "n", "v", "o", "i", "c", "e" >>

sUnknown == << "U", "n", "k", "n", "o", "w", "n" >>

sDiscount == << "d", "i", "s", "c", "o", "u", "n", "t" >>

sNoVat == << "n", "o", " ", "v", "a", "t" >>

sInvoicePrefix == << "I", "n", "v", "o", "i", "c", "e", "_" >>

sPdfSuffix == << ".", "p", "d", "f" >>

sCommaSpace == << ",", " " >>

lcStarContactName == << "*", "c", "o", "n", "t", "a", "c", "t", "n", "a", "m", "e" >>

lcContactName == << "c", "o", "n", "t", "a", "c", "t", "n", "a", "m", "e" >>

lcStarInvoiceNumber == << "*", "i", "n", "v", "o", "i", "c", "e", "n", "u", "m", "b", "e", "r" >>

lcInvoiceNumber == << "i", "n", "v", "o", "i", "c", "e", "n", "u", "m", "b", "e", "r" >>

lcDescription == << "d", "e", "s", "c", "r", "i", "p", "t", "i", "o", "n" >>

lcStarQuantity == << "*", "q", "u", "a", "n", "t", "i", "t", "y" >>

lcQuantity == << "q", "u", "a", "n", "t", "i", "t", "y" >>

lcStarUnitAmount == << "*", "u", "n", "i", "t", "a", "m", "o", "u", "n", "t" >>

lcUnitAmount == << "u", "n", "i", "t", "a", "m", "o", "u", "n", "t" >>

lcTaxAmount == << "t", "a", "x", "a", "m", "o", "u", "n", "t" >>

\* The alternatives of /ship|post|postage|delivery|freight|shipping/i.
ShippingWords ==
  { << "s", "h", "i", "p" >>,
    << "p", "o", "s", "t" >>,
    << "p", "o", "s", "t", "a", "g", "e" >>,
    << "d", "e", "l", "i", "v", "e", "r", "y" >>,
    << "f", "r", "e", "i", "g", "h", "t" >>,
    << "s", "h", "i", "p", "p", "i", "n", "g" >> }

(***************************************************************************)
(* JavaScript objects used as maps                                         *)
(***************************************************************************)

RECURSIVE FirstSeen(_)
\* The distinct elements of a sequence, in the order of their first
\* occurrence: the order in which a loop creates the properties of an object.
FirstSeen(s) ==
  IF s = <<>> THEN <<>>
  ELSE LET init == FirstSeen(SubSeq(s, 1, Len(s) - 1))
           x    == s[Len(s)]
       IN IF \E i \in 1..Len(init) : init[i] = x THEN init ELSE Append(init, x)

\* An array index: a canonical decimal numeral (no sign, no leading zero).
\* Numerals of up to 9 digits are all below 2^32 - 1; longer keys are not in
\* the model's inputs.
IsArrayIndex(k) ==
  /\ k # <<>>
  /\ Len(k) <= 9
  /\ \A i \in 1..Len(k) : IsDigit(k[i])
  /\ (k[1] = "0" => Len(k) = 1)

IndexLess(a, b) == DigitsValue(a) < DigitsValue(b)

RECURSIVE SortIndices(_)
\* The array indices of the finite set S in ascending numeric order.
SortIndices(S) ==
  IF S = {} THEN <<>>
  ELSE LET m == CHOOSE x \in S : \A y \in S \ {x} : IndexLess(x, y)
       IN << m >> \o SortIndices(S \ {m})

\* Object.keys of an object whose properties were created in the order
\* created: the array indices in ascending numeric order, then the other
\* keys in creation order (OrdinaryOwnPropertyKeys).
ObjectKeys(created) ==
  LET idx == { created[i] : i \in { j \in 1..Len(created) : IsArrayIndex(created[j]) } }
  IN SortIndices(idx) \o SelectSeq(created, LAMBDA k : ~IsArrayIndex(k))

RECURSIVE SortStrings(_)
\* The strings of the finite set S in ascending code-unit order.
SortStrings(S) ==
  IF S = {} THEN <<>>
  ELSE LET m == CHOOSE x \in S : \A y \in S \ {x} : StrLess(x, y)
       IN << m >> \o SortStrings(S \ {m})

\* The keys left in the order Object.keys gives them.
sort_Missing(keys) == keys

\* Array.prototype.sort() without a comparator, on distinct strings.
sort(keys) == SortStrings({ keys[i] : i \in 1..Len(keys) })

RECURSIVE flat(_)
\* Array.prototype.flat, one level.
flat(ss) == IF ss = <<>> THEN <<>> ELSE Head(ss) \o flat(Tail(ss))

RECURSIVE join(_, _)
\* Array.prototype.join.
join(ss, sep) ==
  IF ss = <<>> THEN <<>>
  ELSE IF Len(ss) = 1 THEN ss[1]
  ELSE ss[1] \o sep \o join(Tail(ss), sep)

(***************************************************************************)
(* Row normalizer (lines 215-248)                                          *)
(***************************************************************************)

\* headers = data[0].map(h => h.toString().trim())
Headers(data) == [ i \in 1..Len(data[1]) |-> trim(data[1][i]) ]

HeaderSet(headers) == { toLowerCase(headers[i]) : i \in 1..Len(headers) }

\* The check that lets the run go on.
basicOk(headerSet) ==
  /\ (lcStarContactName \in headerSet \/ lcContactName \in headerSet)
  /\ (lcStarInvoiceNumber \in headerSet \/ lcInvoiceNumber \in headerSet)
  /\ lcDescription \in headerSet
  /\ (lcStarQuantity \in headerSet \/ lcQuantity \in headerSet)
  /\ (lcStarUnitAmount \in headerSet \/ lcUnitAmount \in headerSet)
  /\ lcTaxAmount \in headerSet

\* row[i] ? row[i].toString().trim() : ''
CellText(row, i) == IF i <= Len(row) /\ row[i] # <<>> THEN trim(row[i]) ELSE <<>>

\* The object built for one data row: one property per header name, a later
\* column of the same name overwriting an earlier one.
RowObject(headers, row) ==
  [ h \in { headers[i] : i \in 1..Len(headers) } |->
      LET last == CHOOSE i \in 1..Len(headers) :
                    /\ headers[i] = h
                    /\ \A j \in (i + 1)..Len(headers) : headers[j] # h
      IN CellText(row, last) ]

\* rows = data.slice(1).map(...)
Rows(data) ==
  LET headers == Headers(data)
  IN [ i \in 1..(Len(data) - 1) |-> RowObject(headers, data[i + 1]) ]

(***************************************************************************)
(* Grouping engine (lines 254-288)                                         *)
(***************************************************************************)

\* row['*ContactName'] || row[headers[0]] || 'Unknown Brand'
BrandOf(headers, row) ==
  Or(Or(Get(row, sStarContactName), Get(row, headers[1])), sUnknownBrand)

\* row['*InvoiceNumber'] || row['InvoiceNumber'] || 'Unknown Invoice'
InvoiceOf(row) ==
  Or(Or(Get(row, sStarInvoiceNumber), Get(row, sInvoiceNumber)), sUnknownInvoice)

\* The keys of brands in creation order.
BrandsCreated(headers, rows) ==
  FirstSeen([ i \in 1..Len(rows) |-> BrandOf(headers, rows[i]) ])

\* The rows of one brand, in input order.
BrandRows(headers, rows, brand) ==
  SelectSeq(rows, LAMBDA r : BrandOf(headers, r) = brand)

\* Object.keys(brandData): the invoice numbers of a brand.
InvoiceKeys(brandRows) ==
  ObjectKeys(FirstSeen([ i \in 1..Len(brandRows) |-> InvoiceOf(brandRows[i]) ]))

\* allItems = Object.values(brandData).flat()
AllItems(brandRows) ==
  LET keys == InvoiceKeys(brandRows)
  IN flat([ i \in 1..Len(keys) |->
              SelectSeq(brandRows, LAMBDA r : InvoiceOf(r) = keys[i]) ])

\* item['Description'] || ''
DescriptionOf(row) == Or(Get(row, sDescription), <<>>)

\* desc.match(/^#(\d+)/) ? match[1] : 'Unknown'
OrderNumOf(row) ==
  LET desc == DescriptionOf(row)
      ds   == IF desc # <<>> /\ desc[1] = "#" THEN DigitPrefix(Tail(desc)) ELSE <<>>
  IN IF ds # <<>> THEN ds ELSE sUnknown

\* Object.keys(itemsByOrderNumber).sort()
SortedOrderNumbers(allItems) ==
  sort(ObjectKeys(FirstSeen([ i \in 1..Len(allItems) |-> OrderNumOf(allItems[i]) ])))

\* itemsByOrderNumber[orderNum]
OrderItems(allItems, orderNum) ==
  SelectSeq(allItems, LAMBDA r : OrderNumOf(r) = orderNum)

(***************************************************************************)
(* Financial aggregator (lines 291-325)                                    *)
(***************************************************************************)

\* parseFloat(row['*Quantity'] || row['Quantity'] || '1')
QuantityOf(row) ==
  parseFloat(Or(Or(Get(row, sStarQuantity), Get(row, sQuantity)), << "1" >>))

\* parseFloat(row['*UnitAmount'] || row['UnitAmount'] || 0)
UnitPriceOf(row) ==
  parseFloat(Or(Or(Get(row, sStarUnitAmount), Get(row, sUnitAmount)), << "0" >>))

\* row['*TaxType'] || ''
TaxTypeOf(row) == Or(Get(row, sStarTaxType), <<>>)

\* taxType.toLowerCase().includes('no vat')
IsNoVat(row) == includes(toLowerCase(TaxTypeOf(row)), sNoVat)

\* The divisor 1.2 that takes a gross amount to its net amount.
VatDivisor == Rat(12, 10)

\* unitPrice * quantity
GrossOf(row) == Mul(UnitPriceOf(row), QuantityOf(row))

\* NetAmount without the "no vat" branch.
NetAmount_AlwaysVat(row) == roundToNearest(Div(GrossOf(row), VatDivisor))

\* netAmount of the subtotal reducer and of renderRow.
NetAmount(row) ==
  IF IsNoVat(row) THEN roundToNearest(GrossOf(row))
  ELSE roundToNearest(Div(GrossOf(row), VatDivisor))

\* VatAmount as 20% of the gross amount instead of gross minus net.
VatAmount_OfGross(row) ==
  IF IsNoVat(row) THEN Num(0) ELSE roundToNearest(Mul(GrossOf(row), Rat(2, 10)))

\* vatAmount of the totalVat reducer.
VatAmount(row) ==
  IF IsNoVat(row) THEN Num(0)
  ELSE LET grossAmount == GrossOf(row)
           netAmount   == roundToNearest(Div(grossAmount, VatDivisor))
       IN roundToNearest(Sub(grossAmount, netAmount))

\* The summand of the totalGbp reducer without its rounding.
GrossRounded_Unrounded(row) == GrossOf(row)

\* The summand of the totalGbp reducer.
GrossRounded(row) == roundToNearest(GrossOf(row))

RECURSIVE Sum(_)
\* items.reduce((sum, x) => sum + x, 0)
Sum(vs) ==
  IF vs = <<>> THEN Num(0) ELSE Add(Sum(SubSeq(vs, 1, Len(vs) - 1)), vs[Len(vs)])

Subtotal(allItems) == Sum([ i \in 1..Len(allItems) |-> NetAmount(allItems[i]) ])

TotalVat(allItems) == Sum([ i \in 1..Len(allItems) |-> VatAmount(allItems[i]) ])

TotalGbp(allItems) == Sum([ i \in 1..Len(allItems) |-> GrossRounded(allItems[i]) ])

\* The numbers the three reducers compute for one row.
RowAmounts(row) ==
  [ quantity    |-> QuantityOf(row),
    unitPrice   |-> UnitPriceOf(row),
    grossAmount |-> GrossOf(row),
    net         |-> NetAmount(row),
    vat         |-> VatAmount(row),
    gross       |-> GrossRounded(row) ]

(***************************************************************************)
(* Line-item classifier and sorter (lines 374-398)                         *)
(***************************************************************************)

\* d.includes('discount') || quantity < 0
IsDiscount(row) ==
  \/ includes(toLowerCase(DescriptionOf(row)), sDiscount)
  \/ Less(QuantityOf(row), Num(0))

\* shippingRegex.test(r['Description'] || '')
IsShipping(row) ==
  \E w \in ShippingWords : includes(toLowerCase(DescriptionOf(row)), w)

Discounts(orderItems) == SelectSeq(orderItems, IsDiscount)

Normal(orderItems) ==
  SelectSeq(orderItems, LAMBDA r : ~IsDiscount(r) /\ ~IsShipping(r))

Shipping(orderItems) == SelectSeq(orderItems, IsShipping)

\* The items of one order in the order their rows are appended.
EmittedItems(orderItems) ==
  Discounts(orderItems) \o Normal(orderItems) \o Shipping(orderItems)

(***************************************************************************)
(* Template renderer (lines 342-447)                                       *)
(***************************************************************************)

\* (amount < 0) ? `(${Math.abs(amount).toFixed(2)})` : `${amount.toFixed(2)}`
formatAmount(amount) ==
  IF Less(amount, Num(0)) THEN << "(" >> \o toFixed(MathAbs(amount)) \o << ")" >>
  ELSE toFixed(amount)

\* The five cells of one rendered table row.
renderRow(row) ==
  [ description |-> DescriptionOf(row),
    quantity    |-> toFixed(QuantityOf(row)),
    unitPrice   |-> toFixed(UnitPriceOf(row)),
    vatRate     |-> IF IsNoVat(row) THEN "N/A" ELSE "20%",
    netAmount   |-> formatAmount(NetAmount(row)) ]

\* The items of a brand in rendering order: order by order, in the sorted
\* order of the order numbers.
EmittedOfBrand(allItems) ==
  LET keys == SortedOrderNumbers(allItems)
  IN flat([ i \in 1..Len(keys) |-> EmittedItems(OrderItems(allItems, keys[i])) ])

\* itemRowsHtml, as the sequence of its rows.
ItemRowsHtml(allItems) ==
  LET em == EmittedOfBrand(allItems)
  IN [ i \in 1..Len(em) |-> renderRow(em[i]) ]

\* `Invoice_${brand}.pdf`
FileName(brand) == sInvoicePrefix \o brand \o sPdfSuffix

\* htmlContent, as what replaces the placeholders of the template: the brand,
\* the client name, the invoice numbers, the item rows and the three totals
\* (the date placeholder is left out).
HtmlContent(brand, brandRows) ==
  LET allItems == AllItems(brandRows)
  IN [ brand          |-> brand,
       clientName     |-> brand,
       invoiceNumbers |-> join(InvoiceKeys(brandRows), sCommaSpace),
       itemRows       |-> ItemRowsHtml(allItems),
       subtotal       |-> toFixed(Subtotal(allItems)),
       totalVat       |-> toFixed(TotalVat(allItems)),
       totalGbp       |-> toFixed(TotalGbp(allItems)) ]

(***************************************************************************)
(* Input files                                                             *)
(***************************************************************************)

\* The most data rows of a pooled table.
MaxRows == 2

\* The largest whole part of a unit amount of the amount tables.
MaxWhole == 2

\* Header rows. Every layout holds the seven columns contact name, invoice
\* number, description, quantity, unit amount, tax type, tax amount; cols[j]
\* is the concept (1..7, in that order) that column j holds.
StarLayout ==
  [ names |-> << << "*", "C", "o", "n", "t", "a", "c", "t", "N", "a", "m", "e" >>,
                 << "*", "I", "n", "v", "o", "i", "c", "e", "N", "u", "m", "b", "e", "r" >>,
                 << "D", "e", "s", "c", "r", "i", "p", "t", "i", "o", "n" >>,
                 << "*", "Q", "u", "a", "n", "t", "i", "t", "y" >>,
                 << "*", "U", "n", "i", "t", "A", "m", "o", "u", "n", "t" >>,
                 << "*", "T", "a", "x", "T", "y", "p", "e" >>,
                 << "T", "a", "x", "A", "m", "o", "u", "n", "t" >> >>,
    cols  |-> << 1, 2, 3, 4, 5, 6, 7 >> ]

PlainLayout ==
  [ names |-> << << "C", "o", "n", "t", "a", "c", "t", "N", "a", "m", "e" >>,
                 << "I", "n", "v", "o", "i", "c", "e", "N", "u", "m", "b", "e", "r" >>,
                 << "D", "e", "s", "c", "r", "i", "p", "t", "i", "o", "n" >>,
                 << "Q", "u", "a", "n", "t", "i", "t", "y" >>,
                 << "U", "n", "i", "t", "A", "m", "o", "u", "n", "t" >>,
                 << "T", "a", "x", "T", "y", "p", "e" >>,
                 << "T", "a", "x", "A", "m", "o", "u", "n", "t" >> >>,
    cols  |-> << 1, 2, 3, 4, 5, 6, 7 >> ]

LowerLayout ==
  [ names |-> << << "c", "o", "n", "t", "a", "c", "t", "n", "a", "m", "e" >>,
                 << "i", "n", "v", "o", "i", "c", "e", "n", "u", "m", "b", "e", "r" >>,
                 << "d", "e", "s", "c", "r", "i", "p", "t", "i", "o", "n" >>,
                 << "q", "u", "a", "n", "t", "i", "t", "y" >>,
                 << "u", "n", "i", "t", "a", "m", "o", "u", "n", "t" >>,
                 << "t", "a", "x", "t", "y", "p", "e" >>,
                 << "t", "a", "x", "a", "m", "o", "u", "n", "t" >> >>,
    cols  |-> << 1, 2, 3, 4, 5, 6, 7 >> ]

\* The invoice number in the first column, the contact name in the second.
InvoiceFirstLayout ==
  [ names |-> << << "*", "I", "n", "v", "o", "i", "c", "e", "N", "u", "m", "b", "e", "r" >>,
                 << "C", "o", "n", "t", "a", "c", "t", "N", "a", "m", "e" >>,
                 << "D", "e", "s", "c", "r", "i", "p", "t", "i", "o", "n" >>,
                 << "*", "Q", "u", "a", "n", "t", "i", "t", "y" >>,
                 << "*", "U", "n", "i", "t", "A", "m", "o", "u", "n", "t" >>,
                 << "*", "T", "a", "x", "T", "y", "p", "e" >>,
                 << "T", "a", "x", "A", "m", "o", "u", "n", "t" >> >>,
    cols  |-> << 2, 1, 3, 4, 5, 6, 7 >> ]

\* Header cells with surrounding blanks.
PaddedLayout ==
  [ names |-> << << " ", "*", "C", "o", "n", "t", "a", "c", "t", "N", "a", "m", "e", " " >>,
                 << "*", "I", "n", "v", "o", "i", "c", "e", "N", "u", "m", "b", "e", "r", " " >>,
                 << " ", "D", "e", "s", "c", "r", "i", "p", "t", "i", "o", "n" >>,
                 << "*", "Q", "u", "a", "n", "t", "i", "t", "y" >>,
                 << "*", "U", "n", "i", "t", "A", "m", "o", "u", "n", "t" >>,
                 << "*", "T", "a", "x", "T", "y", "p", "e" >>,
                 << "T", "a", "x", "A", "m", "o", "u", "n", "t" >> >>,
    cols  |-> << 1, 2, 3, 4, 5, 6, 7 >> ]

\* No description column.
NoDescriptionLayout ==
  [ names |-> << << "*", "C", "o", "n", "t", "a", "c", "t", "N", "a", "m", "e" >>,
                 << "*", "I", "n", "v", "o", "i", "c", "e", "N", "u", "m", "b", "e", "r" >>,
                 << "*", "Q", "u", "a", "n", "t", "i", "t", "y" >>,
                 << "*", "U", "n", "i", "t", "A", "m", "o", "u", "n", "t" >>,
                 << "*", "T", "a", "x", "T", "y", "p", "e" >>,
                 << "T", "a", "x", "A", "m", "o", "u", "n", "t" >> >>,
    cols  |-> << 1, 2, 4, 5, 6, 7 >> ]

VariantLayouts ==
  { PlainLayout, LowerLayout, InvoiceFirstLayout, PaddedLayout, NoDescriptionLayout }

\* The line items the pooled tables are made of, as their seven concept cells.
RowPool ==
  { << << "A", "c", "m", "e" >>,
       << "I", "N", "V", "1" >>,
       << "#", "9", " ", "M", "u", "g" >>,
       << "2" >>,
       << "1", "0" >>,
       << "S", "t", "a", "n", "d", "a", "r", "d" >>,
       << "3", ".", "3", "3" >> >>,
    << << "A", "c", "m", "e" >>,
       << "I", "N", "V", "1" >>,
       << "#", "9", " ", "S", "h", "i", "p", "p", "i", "n", "g" >>,
       << "1" >>,
       << "5" >>,
       << "S", "t", "a", "n", "d", "a", "r", "d" >>,
       << "0", ".", "8", "3" >> >>,
    << << "A", "c", "m", "e" >>,
       << "7" >>,
       << "#", "9", " ", "D", "i", "s", "c", "o", "u", "n", "t" >>,
       << "1" >>,
       << "-", "3", ".", "5" >>,
       << "N", "o", " ", "V", "A", "T" >>,
       << "0" >> >>,
    << << "A", "c", "m", "e" >>,
       << "I", "N", "V", "2" >>,
       << "#", "1", "0", " ", "F", "r", "e", "i", "g", "h", "t" >>,
       <<>>,
       << "0", ".", "1", "2", "5" >>,
       << "n", "o", " ", "v", "a", "t" >>,
       <<>> >>,
    << <<>>,
       <<>>,
       << "M", "u", "g" >>,
       << "-", "2" >>,
       << "1", ".", "2", "5" >>,
       <<>>,
       << "0", ".", "4", "2" >> >>,
    << << "1", "0" >>,
       << "I", "N", "V", "1" >>,
       << "#", "9", " ", "P", "o", "s", "t", " ", "d", "i", "s", "c", "o", "u", "n", "t" >>,
       << "1" >>,
       << "-", "1" >>,
       << "S", "t", "a", "n", "d", "a", "r", "d" >>,
       <<>> >>,
    << << "A", "c", "m", "e" >>,
       << "I", "N", "V", "1" >>,
       <<>>,
       << "a", "b", "c" >>,
       << "x" >>,
       <<>>,
       <<>> >> }

\* The raw table of a layout and a sequence of line items.
Table(layout, items) ==
  << layout.names >> \o
    [ i \in 1..Len(items) |->
        [ j \in 1..Len(layout.cols) |-> items[i][layout.cols[j]] ] ]

\* All sequences of at most n elements of S.
SeqsUpTo(S, n) == UNION { [ 1..k -> S ] : k \in 0..n }

\* Tables of up to MaxRows pooled line items under the starred headers.
PoolTables == { Table(StarLayout, items) : items \in SeqsUpTo(RowPool, MaxRows) }

\* One pooled line item under each of the other header rows.
VariantTables ==
  { Table(layout, << item >>) : layout \in VariantLayouts, item \in RowPool }

sAcme == << "A", "c", "m", "e" >>

sInv1 == << "I", "N", "V", "1" >>

sMug == << "M", "u", "g" >>

QuantityCells ==
  { << "1" >>, << "3" >>, << "-", "1" >>, << "-", "3" >>, << "0", ".", "5" >>, << "-", "0", ".", "5" >> }

FractionCells ==
  { <<>>, << ".", "0", "0", "5" >>, << ".", "1", "2", "5" >>, << ".", "5" >>, << ".", "6" >>, << ".", "9", "9" >> }

UnitAmountCells ==
  { sign \o IntToDigits(w) \o f :
      sign \in { <<>>, << "-" >> }, w \in 0..MaxWhole, f \in FractionCells }

TaxTypeCells == { << "S", "t", "a", "n", "d", "a", "r", "d" >>, << "N", "o", " ", "V", "A", "T" >> }

\* One line item per table, over a range of quantities and unit amounts.
AmountTables ==
  { Table(StarLayout,
          << << sAcme, sInv1, sMug, q, u, t, <<>> >> >>) :
      q \in QuantityCells, u \in UnitAmountCells, t \in TaxTypeCells }

\* The Drive files a run may be pointed at: CSV files of every table above
\* and an empty CSV file, a Google Sheet, an Excel workbook.
CsvFiles ==
  { [ mime |-> "csv", table |-> t ] :
      t \in PoolTables \cup VariantTables \cup AmountTables \cup { <<>> } }

OtherFiles ==
  { [ mime |-> "sheet", table |-> Table(StarLayout, << item >>) ] : item \in RowPool }
    \cup { [ mime |-> "excel", table |-> <<>> ] }

(***************************************************************************)
(* Progress log (lines 19-121)                                             *)
(***************************************************************************)

LOG_START_ROW == 28

\* sheet.getLastRow() of a sheet that holds the log log from LOG_START_ROW
\* down and nothing below it.
LastRow(log) == IF log = <<>> THEN 0 ELSE LOG_START_ROW + Len(log) - 1

\* function getNextLogRow(sheet); every entry of the model is a non-empty
\* text, so the cell at LOG_START_ROW is empty only when the log is.
getNextLogRow(log) ==
  IF LastRow(log) < LOG_START_ROW THEN LOG_START_ROW ELSE LastRow(log) + 1

\* sheet.getRange(writeRow, 1).setValue(text)
SetLogCell(log, entry) ==
  [ i \in 1..(getNextLogRow(log) - LOG_START_ROW + 1) |->
      IF i <= Len(log) THEN log[i] ELSE entry ]

\* The ASCII characters with the Unicode property Emoji, which the first
\* replace of sanitizeText removes: the digits, "#" and "*".
EmojiChars == { Digits[i] : i \in 1..Len(Digits) } \cup { "#", "*" }

\* function sanitizeText(str), on the part of a line that comes from the data.
sanitizeText(str) == SelectSeq(str, LAMBDA c : c \notin EmojiChars)

\* A status line whose text is fixed.
Status(text) == [ kind |-> "status", text |-> text, brand |-> <<>> ]

\* `Processing brand: ${brand}`
BrandLine(brand) ==
  [ kind |-> "brand", text |-> "Processing brand: ", brand |-> sanitizeText(brand) ]

\* `ERROR: ${e.message}`
ErrorLine(message) == [ kind |-> "error", text |-> message, brand |-> <<>> ]

\* function updateProgressStatus / updateProgressSheet: the write is tried,
\* and an exception of it is caught and logged to the script log only.
updateProgress(log, fails, entry) == IF fails THEN log ELSE SetLogCell(log, entry)

(***************************************************************************)
(* State                                                                   *)
(***************************************************************************)

VARIABLES
  file,        \* the Drive file the pasted URL names
  clearFails,  \* clearing the log range of Sheet1 throws
  writeFails,  \* writing a log cell of Sheet1 throws
  pc,          \* the position of generateBrandReports
  exit,        \* how generateBrandReports ended
  abort,       \* the reason the run was aborted for, "" when it was not
  progress,    \* the log cells of Sheet1, from LOG_START_ROW down
  alerts,      \* the blocking dialogs shown so far
  rows,        \* the row objects of the table
  brandQueue,  \* the brands the map of line 271 has still to visit
  locals,      \* allItems, the row amounts and the totals of the brand visited last
  pdfResults,  \* the reports made so far
  folder,      \* the output folder exists
  saveQueue,   \* the reports still to be saved
  fileLinks,   \* the files saved so far
  tracking     \* the tracking sheet: whether it exists, and its rows below the header

vars ==
  << file, clearFails, writeFails, pc, exit, abort, progress, alerts, rows,
     brandQueue, locals, pdfResults, folder, saveQueue, fileLinks, tracking >>

\* An entry left in the log by an earlier run.
OldEntry == Status("COMPLETED")

NoLocals == [ brand |-> <<>>, allItems |-> <<>>, amounts |-> <<>>,
              subtotal |-> Num(0), totalVat |-> Num(0), totalGbp |-> Num(0) ]

InitRun ==
  /\ clearFails \in BOOLEAN
  /\ writeFails \in BOOLEAN
  /\ progress \in { <<>>, << OldEntry >> }
  /\ pc = "start"
  /\ exit = "running"
  /\ abort = ""
  /\ alerts = <<>>
  /\ rows = <<>>
  /\ brandQueue = <<>>
  /\ locals = NoLocals
  /\ pdfResults = <<>>
  /\ folder = FALSE
  /\ saveQueue = <<>>
  /\ fileLinks = <<>>
  /\ tracking = [ exists |-> FALSE, rows |-> <<>> ]

Init == file \in CsvFiles \cup OtherFiles /\ InitRun

(***************************************************************************)
(* generateBrandReports, step by step                                      *)
(***************************************************************************)

Info(text) == [ kind |-> "info", text |-> text ]

\* Browser.msgBox('Error: ' + e.message)
ErrorBox(message) == [ kind |-> "error", text |-> message ]

\* return, with the rest of the state as it is.
Return(how) ==
  /\ pc' = "done"
  /\ exit' = how

\* The catch block of lines 508-511.
Catch(message) ==
  /\ progress' = updateProgress(progress, writeFails, ErrorLine(message))
  /\ alerts' = Append(alerts, ErrorBox(message))
  /\ abort' = message
  /\ Return("caught")

\* Lines 127-133: clearProgressLog() outside any try block, then the first
\* status line.
Begin ==
  /\ pc = "start"
  /\ IF clearFails
     THEN /\ Return("uncaught")
          /\ UNCHANGED << progress, alerts >>
     ELSE /\ pc' = "prompt"
          /\ exit' = exit
          /\ alerts' = IF LastRow(progress) < LOG_START_ROW
                       THEN Append(alerts, Info("No progress log entries to clear."))
                       ELSE alerts
          /\ progress' = updateProgress(<<>>, writeFails,
                                        Status("Starting brand report generation..."))
  /\ UNCHANGED << file, clearFails, writeFails, abort, rows, brandQueue, locals,
                  pdfResults, folder, saveQueue, fileLinks, tracking >>

\* Lines 136-154: the URL prompt.
Prompt ==
  /\ pc = "prompt"
  /\ \E answer \in { "cancel", "invalid", "url" } :
       CASE answer = "cancel" ->
              /\ progress' = updateProgress(progress, writeFails,
                                            Status("Operation cancelled by user"))
              /\ alerts' = alerts
              /\ Return("cancelled")
         [] answer = "invalid" ->
              /\ alerts' = Append(alerts, Info("Invalid CSV URL."))
              /\ progress' = progress
              /\ Return("invalidUrl")
         [] answer = "url" ->
              /\ progress' = updateProgress(progress, writeFails,
                                            Status("Loading HTML template..."))
              /\ alerts' = alerts
              /\ pc' = "template"
              /\ exit' = exit
  /\ UNCHANGED << file, clearFails, writeFails, abort, rows, brandQueue, locals,
                  pdfResults, folder, saveQueue, fileLinks, tracking >>

\* Lines 157-180: the template, from the project or from Drive.
LoadTemplate ==
  /\ pc = "template"
  /\ \E found \in BOOLEAN :
       IF found
       THEN /\ progress' = updateProgress(progress, writeFails,
                                          Status("Loading data file..."))
            /\ pc' = "file"
            /\ UNCHANGED << exit, abort, alerts >>
       ELSE Catch("Could not find invoice_template.html in project or Drive.")
  /\ UNCHANGED << file, clearFails, writeFails, rows, brandQueue, locals,
                  pdfResults, folder, saveQueue, fileLinks, tracking >>

\* Lines 181-213: the data file. Utilities.parseCsv and the manual split give
\* the same table on the model's files, which hold no quote and no comma in
\* a cell.
LoadFile ==
  /\ pc = "file"
  /\ \E found \in BOOLEAN :
       IF ~found THEN Catch("No item with the given ID could be found.")
       ELSE IF file.mime = "excel"
       THEN /\ progress' = updateProgress(progress, writeFails, Status("Processing file"))
            /\ alerts' = Append(alerts, Info("Excel files need to be converted."))
            /\ abort' = abort
            /\ Return("excel")
       ELSE /\ progress' = updateProgress(progress, writeFails, Status("Processing file"))
            /\ pc' = "normalize"
            /\ UNCHANGED << exit, abort, alerts >>
  /\ UNCHANGED << file, clearFails, writeFails, rows, brandQueue, locals,
                  pdfResults, folder, saveQueue, fileLinks, tracking >>

\* Lines 215-251: headers, their validation, the row objects.
Normalize ==
  /\ pc = "normalize"
  /\ IF file.table = <<>>
     THEN /\ Catch("Cannot read properties of undefined (reading 'map')")
          /\ rows' = rows
     ELSE IF ~basicOk(HeaderSet(Headers(file.table)))
     THEN /\ progress' = updateProgress(progress, writeFails,
                                        Status("Headers on sheet not as expected"))
          /\ abort' = "Headers on sheet not as expected"
          /\ Return("headers")
          /\ UNCHANGED << alerts, rows >>
     ELSE /\ rows' = Rows(file.table)
          /\ pc' = "group"
          /\ UNCHANGED << exit, abort, progress, alerts >>
  /\ UNCHANGED << file, clearFails, writeFails, brandQueue, locals,
                  pdfResults, folder, saveQueue, fileLinks, tracking >>

\* Lines 254-271: the brands object, and the keys the map will visit.
Group ==
  /\ pc = "group"
  /\ brandQueue' = ObjectKeys(BrandsCreated(Headers(file.table), rows))
  /\ progress' = updateProgress(progress, writeFails,
                                Status("Starting PDF generation for each brand..."))
  /\ pc' = "brands"
  /\ UNCHANGED << file, clearFails, writeFails, exit, abort, alerts, rows, locals,
                  pdfResults, folder, saveQueue, fileLinks, tracking >>

\* Lines 271-462: one call of the map callback.
ProcessBrand ==
  /\ pc = "brands"
  /\ brandQueue # <<>>
  /\ LET brand     == Head(brandQueue)
         brandRows == BrandRows(Headers(file.table), rows, brand)
         allItems  == AllItems(brandRows)
         line      == updateProgress(progress, writeFails, BrandLine(brand))
     IN /\ locals' = [ brand    |-> brand,
                       allItems |-> allItems,
                       amounts  |-> [ i \in 1..Len(allItems) |-> RowAmounts(allItems[i]) ],
                       subtotal |-> Subtotal(allItems),
                       totalVat |-> TotalVat(allItems),
                       totalGbp |-> TotalGbp(allItems) ]
        /\ \E converted \in BOOLEAN :
             IF converted
             THEN /\ pdfResults' =
                       Append(pdfResults,
                              [ brand          |-> brand,
                                invoiceNumbers |-> InvoiceKeys(brandRows),
                                pdfBlob        |-> HtmlContent(brand, brandRows),
                                fileName       |-> FileName(brand) ])
                  /\ brandQueue' = Tail(brandQueue)
                  /\ progress' = line
                  /\ UNCHANGED << pc, exit, abort, alerts >>
             ELSE /\ progress' = updateProgress(line, writeFails,
                                                ErrorLine("Conversion to PDF failed."))
                  /\ alerts' = Append(alerts, ErrorBox("Conversion to PDF failed."))
                  /\ abort' = "Conversion to PDF failed."
                  /\ Return("caught")
                  /\ UNCHANGED << pdfResults, brandQueue >>
  /\ UNCHANGED << file, clearFails, writeFails, rows, folder, saveQueue,
                  fileLinks, tracking >>

\* Lines 466-473: the output folder.
\* The folder is created as soon as one brand has been converted.
MapDone_AfterFirst == pdfResults # <<>> \/ brandQueue = <<>>

\* Object.keys(brands).map(...) has returned: its callback has run for every
\* brand, and only then does control reach the statements after it.
MapDone == brandQueue = <<>>

CreateFolder ==
  /\ pc = "brands"
  /\ MapDone
  /\ LET line == updateProgress(progress, writeFails,
                                Status("Creating Drive folder and organizing PDFs..."))
     IN \E created \in BOOLEAN :
          IF created
          THEN /\ folder' = TRUE
               /\ saveQueue' = pdfResults
               /\ progress' = line
               /\ pc' = "save"
               /\ UNCHANGED << exit, abort, alerts >>
          ELSE /\ progress' = updateProgress(line, writeFails,
                                             ErrorLine("Folder creation failed."))
               /\ alerts' = Append(alerts, ErrorBox("Folder creation failed."))
               /\ abort' = "Folder creation failed."
               /\ Return("caught")
               /\ UNCHANGED << folder, saveQueue >>
  /\ UNCHANGED << file, clearFails, writeFails, rows, brandQueue, locals,
                  pdfResults, fileLinks, tracking >>

\* Lines 474-485: one call of the forEach callback.
SaveFile ==
  /\ pc = "save"
  /\ saveQueue # <<>>
  /\ \E created \in BOOLEAN :
       IF created
       THEN /\ fileLinks' =
                 Append(fileLinks,
                        [ brand          |-> Head(saveQueue).brand,
                          invoiceNumbers |-> join(Head(saveQueue).invoiceNumbers, sCommaSpace),
                          fileName       |-> Head(saveQueue).fileName ])
            /\ saveQueue' = Tail(saveQueue)
            /\ UNCHANGED << pc, exit, abort, progress, alerts >>
       ELSE /\ Catch("File creation failed.")
            /\ UNCHANGED << fileLinks, saveQueue >>
  /\ UNCHANGED << file, clearFails, writeFails, rows, brandQueue, locals,
                  pdfResults, folder, tracking >>

\* Lines 487-507: the tracking sheet, the last status line and the dialog.
Track ==
  /\ pc = "save"
  /\ saveQueue = <<>>
  /\ \E inserted \in BOOLEAN :
       IF inserted
       THEN /\ tracking' = [ exists |-> TRUE, rows |-> fileLinks ]
            /\ progress' = updateProgress(progress, writeFails, Status("COMPLETED"))
            /\ alerts' = Append(alerts, Info("Reports generated successfully!"))
            /\ abort' = abort
            /\ Return("completed")
       ELSE /\ Catch("A sheet with that name already exists.")
            /\ tracking' = tracking
  /\ UNCHANGED << file, clearFails, writeFails, rows, brandQueue, locals,
                  pdfResults, folder, saveQueue, fileLinks >>

Next ==
  \/ Begin
  \/ Prompt
  \/ LoadTemplate
  \/ LoadFile
  \/ Normalize
  \/ Group
  \/ ProcessBrand
  \/ CreateFolder
  \/ SaveFile
  \/ Track

Spec == Init /\ [][Next]_vars

(***************************************************************************)
(* Properties                                                              *)
(***************************************************************************)

\* The report of the brand visited last has been rendered and kept.
Rendered ==
  /\ pdfResults # <<>>
  /\ locals.allItems # <<>>
  /\ pdfResults[Len(pdfResults)].brand = locals.brand

\* The item rows of that report.
LastItemRows == pdfResults[Len(pdfResults)].pdfBlob.itemRows

\* |x - y| <= 0.01
WithinCent(x, y) == ~Less(Rat(1, 100), MathAbs(Sub(x, y)))

\* The order the claim gives to the items of one order.
C1_ClaimedOrder(orderItems) ==
  SelectSeq(orderItems, IsDiscount)
    \o SelectSeq(orderItems, LAMBDA r : ~IsDiscount(r) /\ ~IsShipping(r))
    \o SelectSeq(orderItems, LAMBDA r : ~IsDiscount(r) /\ IsShipping(r))

\* The rows of a report whose orders are each in the claimed order.
C1_ClaimedRows(allItems) ==
  LET keys == SortedOrderNumbers(allItems)
      em   == flat([ i \in 1..Len(keys) |->
                       C1_ClaimedOrder(OrderItems(allItems, keys[i])) ])
  IN [ i \in 1..Len(em) |-> renderRow(em[i]) ]

\* C1: in every rendered report, the rows of each order are its Discount
\* items, then its Normal items, then its Shipping items that are not
\* Discount items, each part in the order of the order's items; so the report
\* holds one row per item of the brand.
C1_EmittedOncePerItem ==
  Rendered =>
    /\ Len(LastItemRows) = Len(locals.allItems)
    /\ LastItemRows = C1_ClaimedRows(locals.allItems)

C4_RoundHalfAway(v) ==
  IF IsNaN(v) THEN NaN
  ELSE LET a == MathAbs(v)
           c == (2 * a.n * 100 + a.d) \div (2 * a.d)
       IN Rat(IF v.n < 0 THEN -c ELSE c, 100)

\* C4: roundToNearest rounds every amount, positive or negative, half away
\* from zero: the rounded gross amount of every aggregated row is the
\* half-away-from-zero rounding of quantity * unit amount.
C4_HalfAwayFromZero ==
  \A i \in 1..Len(locals.amounts) :
    locals.amounts[i].gross = C4_RoundHalfAway(locals.amounts[i].grossAmount)

\* The cell of data row i in the column whose header, trimmed and in lower
\* case, is one of names; Undefined when there is no such column.
C5_ConceptCell(i, names) ==
  LET headers == Headers(file.table)
      cols    == { j \in 1..Len(headers) : toLowerCase(headers[j]) \in names }
  IN IF cols = {} THEN Undefined
     ELSE CellText(file.table[i + 1], CHOOSE j \in cols : TRUE)

C5_Reads(cell, read) == Truthy(cell) => read = cell

\* C5: once the headers have passed validation, every row's brand, invoice
\* number, description, quantity and unit amount are read from the column
\* whose header is the plain or the starred name in any letter case.
C5_HeaderTolerance ==
  \A i \in 1..Len(rows) :
    /\ C5_Reads(C5_ConceptCell(i, { lcContactName, lcStarContactName }),
                BrandOf(Headers(file.table), rows[i]))
    /\ C5_Reads(C5_ConceptCell(i, { lcInvoiceNumber, lcStarInvoiceNumber }),
                InvoiceOf(rows[i]))
    /\ C5_Reads(C5_ConceptCell(i, { lcDescription }), DescriptionOf(rows[i]))
    /\ C5_Reads(C5_ConceptCell(i, { lcQuantity, lcStarQuantity }),
                Or(Get(rows[i], sStarQuantity), Get(rows[i], sQuantity)))
    /\ C5_Reads(C5_ConceptCell(i, { lcUnitAmount, lcStarUnitAmount }),
                Or(Get(rows[i], sStarUnitAmount), Get(rows[i], sUnitAmount)))

\* C6: a completed run has made its reports, its files and its tracking rows
\* for the distinct brands in the order of their first row, one each.
C6_FirstSeenOrder ==
  exit = "completed" =>
    LET seen == BrandsCreated(Headers(file.table), rows)
    IN /\ [ i \in 1..Len(pdfResults) |-> pdfResults[i].brand ] = seen
       /\ [ i \in 1..Len(fileLinks) |-> fileLinks[i].brand ] = seen
       /\ [ i \in 1..Len(tracking.rows) |-> tracking.rows[i].brand ] = seen

\* The number of entries of a log or of the dialogs with the text text.
C7_Count(entries, text) ==
  Cardinality({ i \in 1..Len(entries) : entries[i].text = text })

\* C7: when a run has been aborted and the progress log can be written, the
\* reason is in the progress log once and in the blocking dialogs once.
C7_AbortSurfacedTwice ==
  (pc = "done" /\ abort # "" /\ ~writeFails) =>
    /\ C7_Count(progress, abort) = 1
    /\ C7_Count(alerts, abort) = 1

\* C8: no failure of a progress-log operation makes generateBrandReports end
\* by an exception.
C8_SinkFailureContained ==
  (clearFails \/ writeFails) => exit # "uncaught"

\* C9: a row whose quantity cell is absent, empty or not a number counts
\* with quantity 1, one whose unit-amount cell is so with unit amount 0, and
\* the totals of its brand are numbers.
C9_Defaults ==
  /\ \A i \in 1..Len(locals.allItems) :
       LET item == locals.allItems[i]
           q    == Or(Get(item, sStarQuantity), Get(item, sQuantity))
           u    == Or(Get(item, sStarUnitAmount), Get(item, sUnitAmount))
       IN /\ (~Truthy(q) \/ IsNaN(parseFloat(q)))
               => locals.amounts[i].quantity = Num(1)
          /\ (~Truthy(u) \/ IsNaN(parseFloat(u)))
               => locals.amounts[i].unitPrice = Num(0)
  /\ ~IsNaN(locals.subtotal) /\ ~IsNaN(locals.totalVat) /\ ~IsNaN(locals.totalGbp)

\* The order key of a rendered description: the digits after a leading "#",
\* "Unknown" when there are none.
C10_OrderKey(description) ==
  IF description # <<>> /\ description[1] = "#"
       /\ Len(description) > 1 /\ IsDigit(description[2])
  THEN DigitPrefix(Tail(description))
  ELSE sUnknown

\* C10: the rows of a rendered report come order by order, the orders in
\* ascending code-unit order of their keys, whatever the invoices of the
\* items, and every item of the brand has a row.
C10_OrdersLexicographic ==
  Rendered =>
    /\ \A i, j \in 1..Len(LastItemRows) :
         i < j =>
           LET ki == C10_OrderKey(LastItemRows[i].description)
               kj == C10_OrderKey(LastItemRows[j].description)
           IN ki = kj \/ StrLess(ki, kj)
    /\ \A i \in 1..Len(locals.allItems) :
         \E k \in 1..Len(LastItemRows) :
           LastItemRows[k] = renderRow(locals.allItems[i])

\* A report whose first row is of order "10" and whose last row is of order
\* "9", the two items coming from different invoices in the other order.
C10_Witness ==
  /\ Rendered
  /\ Len(LastItemRows) = 2
  /\ C10_OrderKey(LastItemRows[1].description) = << "1", "0" >>
  /\ C10_OrderKey(LastItemRows[2].description) = << "9" >>
  /\ C10_OrderKey(DescriptionOf(locals.allItems[1])) = << "9" >>
  /\ InvoiceOf(locals.allItems[1]) # InvoiceOf(locals.allItems[2])

C12_Brands == ObjectKeys(BrandsCreated(Headers(file.table), rows))

\* C12: while a folder, a saved file or the tracking sheet exists, every
\* brand of the table has been converted; and a run that ended because a
\* brand's conversion failed has created no folder, no file and no tracking
\* sheet, whichever brand it was.
C12_NoArtifactBeforeAllRendered ==
  /\ (folder \/ fileLinks # <<>> \/ tracking.exists) =>
       /\ brandQueue = <<>>
       /\ Len(pdfResults) = Len(C12_Brands)
       /\ \A i \in 1..Len(pdfResults) : pdfResults[i].brand = C12_Brands[i]
  /\ (exit = "caught" /\ abort = "Conversion to PDF failed.") =>
       /\ ~folder
       /\ fileLinks = <<>>
       /\ ~tracking.exists

\* The first brand was converted, the conversion of the second failed, and
\* the run has ended with nothing created.
C12_Witness ==
  /\ exit = "caught"
  /\ abort = "Conversion to PDF failed."
  /\ Len(pdfResults) = 1
  /\ Len(brandQueue) = 1
  /\ ~folder /\ fileLinks = <<>> /\ ~tracking.exists

=============================================================================
